---- MODULE Spec2Model ----
(***************************************************************************)
(* Model of the sklep reactive stores: writable cells (core.ts) and        *)
(* derived cells (derived.ts), with the equality policy of utils.ts.       *)
(*                                                                         *)
(* The network is the diamond  S -> A, S -> B, (A, B) -> C:                *)
(*   S = writable(v, start)            a plain cell with a lifecycle hook  *)
(*   A = derived(S, x => (x + 1) % 3)                                      *)
(*   B = derived(S or F, x => (2 * x) % 3)                                 *)
(*   C = derived([A, B], [initial,] ([a, b], p) => (a + 2*b + (p ?? 0)) % 3)*)
(* F is a foreign store { subscribe(r, i) { return { unsubscribe:          *)
(* S.subscribe(r, i) } } } that has no get(); whether B reads S directly   *)
(* or through F is fixed at construction (foreignB).                       *)
(* L is a foreign store { subscribe(r, i) { return S.listen(r, i) } }: it  *)
(* has no get() either, and its subscribe never calls r synchronously.     *)
(* P is a foreign store { subscribe: S.subscribe }: no get(), and its      *)
(* subscribe returns the bare unsubscribe function.                        *)
(*                                                                         *)
(* All propagation is synchronous, so every public call is one action and  *)
(* the calls it makes are recursive operators over a record of the state.  *)
(***************************************************************************)
EXTENDS Integers, Sequences, FiniteSets, TLC

\* ------------------------------------------------------------------ bounds
NumHandles == 2
MaxSteps == 4

\* ------------------------------------------------------------ JS values
Num(n) == [t |-> "number", n |-> n]
NaN == [t |-> "NaN", n |-> 0]
Undefined == [t |-> "undefined", n |-> 0]
Null == [t |-> "null", n |-> 0]
Obj(n) == [t |-> "object", n |-> n]
Prim(t) == [t |-> t, n |-> 0]

\* the values the equality policy is applied to on its own: two of each
\* kind where two equal-looking values can differ in identity
JSVals ==
  {Num(0), Num(1), NaN, Undefined, Null, Obj(1), Obj(2),
   Prim("boolean"), Prim("string"), Prim("bigint"), Prim("symbol"),
   [t |-> "function", n |-> 1]}

\* typeof val
TypeOf(val) ==
  CASE val.t = "NaN" -> "number"
    [] val.t = "null" -> "object"
    [] OTHER -> val.t

\* a === b
StrictEq(a, b) == a = b /\ a.t # "NaN"

\* a slip of isPrimitive: null falls under 'object' and is not singled out
isPrimitive_NullAsObject(val) ==
  TypeOf(val) \in {"boolean", "number", "bigint", "string", "symbol", "undefined"}

\* utils.ts isPrimitive
isPrimitive(val) ==
  CASE TypeOf(val) \in {"boolean", "number", "bigint", "string", "symbol", "undefined"} -> TRUE
    [] TypeOf(val) \in {"object", "function"} -> val = Null

\* utils.ts shouldUpdate
shouldUpdate(oldVal, newVal, skip) ==
  IF ~StrictEq(newVal, oldVal) THEN TRUE
  ELSE CASE skip = "never" -> TRUE
         [] skip = "always" -> FALSE
         [] skip = "primitive" -> ~isPrimitive(newVal)

\* ------------------------------------------------------------- topology
Writables == {"S"}
Deriveds == {"A", "B", "C"}
Cells == Writables \cup Deriveds
Handles == 1..NumHandles
Modes == {"never", "primitive", "always"}

\* the values a caller passes to S.set
SetVals == {Num(0), Num(1), Obj(1)}

\* the arithmetic of the update functions: any operand that is not a
\* number makes the result NaN
IsNum(v) == v.t = "number"
Mod3(n) == Num(n % 3)
UpdateA(x) == IF IsNum(x) THEN Mod3(x.n + 1) ELSE NaN
UpdateB(x) == IF IsNum(x) THEN Mod3(2 * x.n) ELSE NaN
UpdateC(a, b, p) ==
  LET q == IF p = Undefined THEN Num(0) ELSE p
  IN IF IsNum(a) /\ IsNum(b) /\ IsNum(q) THEN Mod3(a.n + 2 * b.n + q.n) ELSE NaN

\* fn(deps, previousValue, previousDeps) of derived cell d
Fn(d, depVals, pVal, pDeps) ==
  CASE d = "A" -> UpdateA(depVals[1])
    [] d = "B" -> UpdateB(depVals[1])
    [] d = "C" -> UpdateC(depVals[1], depVals[2], pVal)

VARIABLES
  value,              \* core.ts writable: value
  dirty,              \* core.ts writable: dirty
  subscribers,        \* core.ts writable: subscribers
  stop,               \* core.ts writable: stop (TRUE when a stopper is remembered)
  depValues,          \* derived.ts: depValues
  depPrevValues,      \* derived.ts: depPrevValues
  depDirty,           \* derived.ts: depDirty
  depUnsubscribers,   \* derived.ts: depUnsubscribers (TRUE when a handle is stored)
  stopPreviousUpdate, \* derived.ts: stopPreviousUpdate (TRUE when a stopper is stored)
  hasAnySubscribers,  \* derived.ts: hasAnySubscribers
  starting,           \* derived.ts: starting
  hookOn,             \* S's start hook has run and its stopper has not
  handle,             \* the caller's unsubscribe handles: the cell each belongs to
  skipMode,           \* options.skipSubscribersWhenEqual of S
  initialC,           \* options.initial of C
  foreignB,           \* B's source is the foreign wrapper F rather than S
  steps,              \* the number of public calls made so far
  eqCall,             \* the last direct call of shouldUpdate and its result
  react,              \* what the callbacks registered under handle 1 do when called
  seen,               \* what the callbacks of the last call saw the cell report
  form,               \* the kind of update function A was built with
  pending,            \* the setter calls a deferred update function still owes
  fed,                \* the sources' values at each update invocation of the last call
  optSkipDirtyDeps,   \* options.skipDirtyDeps of the derived cells
  stops,              \* the stop actions run during the last call, by the update that made them
  op,                 \* the last public call
  ret,                \* what it returned
  log                 \* the callbacks it made, in order

vars == <<value, dirty, subscribers, stop, depValues, depPrevValues, depDirty,
          depUnsubscribers, stopPreviousUpdate, hasAnySubscribers, starting,
          hookOn, handle, skipMode, initialC, foreignB, steps, eqCall, react, seen,
          form, pending, fed, optSkipDirtyDeps, stops, op, ret, log>>

\* deps of a derived cell, in order
Deps(d) ==
  CASE d = "A" -> <<"S">>
    [] d = "B" -> IF foreignB THEN <<"F">> ELSE <<"S">>
    [] d = "C" -> <<"A", "B">>

single(d) == d \in {"A", "B"}

\* the cell whose subscribe a source forwards to
Under(src) == IF src \in {"F", "L", "P"} THEN "S" ELSE src

\* typeof s.get === 'function' && s.get.length === 0
HasGet(src) == src \notin {"F", "L", "P"}

\* what a store's subscribe returns: a function, or an object with an
\* unsubscribe method
UnsubscriberOf(src) == IF src = "F" THEN "object" ELSE "function"

initial(d) == IF d = "C" THEN initialC ELSE Undefined
skipSubscribersWhenEqual(c) == IF c = "S" THEN skipMode ELSE "primitive"
skipDirtyDeps(d) == optSkipDirtyDeps

\* options.update of a derived cell. "simple": (stores, set, p, pd) =>
\* { set(fn(stores, p, pd)) }, what the short forms of derived() build;
\* "stopper": the same, returning a stop action; "deferred": it calls set
\* later, not during the call, and returns a stop action that cancels the
\* call it owes
Forms == {"simple", "stopper", "deferred"}
Form(d) == IF d = "A" THEN form ELSE "simple"
ReturnsStopper(d) == Form(d) \in {"stopper", "deferred"}
NoPending == [on |-> FALSE, v |-> Undefined]

Holes(d) == [i \in 1..Len(Deps(d)) |-> Undefined]

\* ---------------------------------------------------- subscriber entries
ExtEntry(h) == [k |-> "ext", d |-> "", i |-> h, inv |-> TRUE]
DepEntry(d, i) == [k |-> "dep", d |-> d, i |-> i, inv |-> TRUE]
GetEntry == [k |-> "get", d |-> "", i |-> 0, inv |-> FALSE]

\* subscribers.indexOf(obj), 0 for -1
IndexOf(seq, e) ==
  IF \E j \in 1..Len(seq) : seq[j] = e
  THEN CHOOSE j \in 1..Len(seq) : seq[j] = e /\ \A m \in 1..(j - 1) : seq[m] # e
  ELSE 0

\* subscribers.splice(index, 1)
Splice(seq, j) == [m \in 1..(Len(seq) - 1) |-> IF m < j THEN seq[m] ELSE seq[m + 1]]

\* ------------------------------------------------------------ the log
Ev(t, c, e, a, b, ds, ps) ==
  [t |-> t, cell |-> c, who |-> e, a |-> a, b |-> b, deps |-> ds, pdeps |-> ps]
NoEntry == [k |-> "", d |-> "", i |-> 0, inv |-> FALSE]
Logged(w, ev) == [w EXCEPT !.log = Append(@, ev)]

\* what a callback of cell c sees when it asks the cell: isDirty(), the
\* value the writable holds, and whether get() answers with that value
\* (always for a plain cell, for a derived cell while it has subscribers)
Observed(w, t, c, e, by) ==
  [w EXCEPT !.seen = Append(@, [t |-> t, cell |-> c, who |-> e, by |-> by,
                                isDirty |-> w.dirty[c], raw |-> w.value[c],
                                active |-> c \in Writables \/ w.hasAnySubscribers[c]])]

\* the callbacks a caller registers under handle 1, under handle 2, and the
\* pair a callback of handle 1 may register in its turn
Reactor == ExtEntry(1)
Other == ExtEntry(2)
Late == ExtEntry(0)
Behaviours == {"none", "unsubSelfInRun", "unsubSelfInInv", "unsubOtherInRun", "subscribeInRun"}

\* the state the operators below work on
World ==
  [value |-> value, dirty |-> dirty, subscribers |-> subscribers, stop |-> stop,
   depValues |-> depValues, depPrevValues |-> depPrevValues, depDirty |-> depDirty,
   depUnsubscribers |-> depUnsubscribers, stopPreviousUpdate |-> stopPreviousUpdate,
   hasAnySubscribers |-> hasAnySubscribers, starting |-> starting, hookOn |-> hookOn,
   ret |-> Undefined, got |-> Undefined, called |-> FALSE, ok |-> TRUE, log |-> <<>>,
   seen |-> <<>>, pending |-> pending, fed |-> <<>>,
   held |-> [d \in Deriveds |-> 0], made |-> 0, stops |-> <<>>]

RECURSIVE invalidate(_, _), invalidateLoop(_, _, _), callInvalidate(_, _, _)
RECURSIVE set(_, _, _), runLoop(_, _, _, _), callRun(_, _, _, _, _), runLoop_Swapped(_, _, _, _)
RECURSIVE depRun(_, _, _, _), depRun_AlwaysRecords(_, _, _, _), depRun_KeepsDirty(_, _, _, _), depInvalidate(_, _, _), update(_, _, _, _, _)
RECURSIVE listen(_, _, _), subscribe(_, _, _), unsubscribe(_, _, _), unsubscribe_ByCallback(_, _, _)
RECURSIVE start(_, _), startLoop(_, _, _), stopper(_, _), stopperLoop(_, _, _)
RECURSIVE stopper_StoresInitial(_, _)
RECURSIVE get(_, _), derivedGet(_, _), getStoreValue(_, _), mapGet(_, _, _, _)
RECURSIVE assign(_, _, _), propagate(_, _), propagate_NoStop(_, _), propagate_AlwaysWaits(_, _), firstRun(_, _, _), lastOut(_, _)
RECURSIVE mapNext(_, _, _, _), deliver(_, _, _, _, _, _), reactRun(_, _, _), reactInv(_, _, _)
RECURSIVE storeSubscribe(_, _, _), cancel(_, _, _), cancel_FunctionOnly(_, _, _)

\* return x
Return(w, x) == [w EXCEPT !.ret = x]
\* return value
ReturnValue(w, c) == [w EXCEPT !.ret = w.value[c]]
\* which stop action is which: the one an update function returns is
\* numbered by its invocation within the call (1, 2, ...), the one stored
\* before the call is 0; held[d] is the number of the one stopPreviousUpdate
\* holds, made the number of the one the update function just returned
NextStopId(w, d) == Len(SelectSeq(w.log, LAMBDA x : x.t = "update" /\ x.cell = d)) + 1
Stopped(w, d, n) == [w EXCEPT !.stops = Append(@, [cell |-> d, id |-> n])]

\* stopPreviousUpdate?.()
runStopPreviousUpdate(w, d) ==
  IF w.stopPreviousUpdate[d]
  THEN [Stopped(Logged(w, Ev("stopper", d, NoEntry, Undefined, Undefined, <<>>, <<>>)),
                d, w.held[d])
          EXCEPT !.pending[d] = NoPending]
  ELSE w

\* writable.invalidate: for (const { invalidate } of subscribers) invalidate?.()
invalidateLoop(w, c, j) ==
  IF j > Len(w.subscribers[c]) THEN w
  ELSE invalidateLoop(callInvalidate(w, c, w.subscribers[c][j]), c, j + 1)

\* invalidate without its guard: it runs the loop on a dirty cell too
invalidate_NoGuard(w, c) ==
  invalidateLoop([w EXCEPT !.dirty[c] = TRUE], c, 1)

invalidate(w, c) ==
  IF w.dirty[c] THEN w
  ELSE invalidateLoop([w EXCEPT !.dirty[c] = TRUE], c, 1)

\* one subscriber's invalidation callback
callInvalidate(w, c, e) ==
  IF ~e.inv THEN w
  ELSE IF e.k = "dep"
       THEN depInvalidate(Logged(Observed(w, "inv", c, e, "invalidate"),
                                 Ev("inv", c, e, Undefined, Undefined, <<>>, <<>>)), e.d, e.i)
       ELSE reactInv(Logged(Observed(w, "inv", c, e, "invalidate"),
                            Ev("inv", c, e, Undefined, Undefined, <<>>, <<>>)), c, e)

\* the body of the caller's invalidation callback: handle 1's may cancel
\* its own subscription
reactInv(w, c, e) ==
  IF e = Reactor /\ react = "unsubSelfInInv" THEN unsubscribe(w, c, e) ELSE w

\* the loop that calls run(prevValue, value)
runLoop_Swapped(w, c, prevValue, j) ==
  IF j > Len(w.subscribers[c]) THEN w
  ELSE runLoop_Swapped(callRun(w, c, w.subscribers[c][j], prevValue, w.value[c]), c, prevValue, j + 1)

\* writable.set: for (const { run } of subscribers) run(value, prevValue)
runLoop(w, c, prevValue, j) ==
  IF j > Len(w.subscribers[c]) THEN w
  ELSE runLoop(callRun(w, c, w.subscribers[c][j], w.value[c], prevValue), c, prevValue, j + 1)

\* set that reads prevValue after it stored the new value
assign_PrevAfterStore(w, c, val) ==
  ReturnValue(runLoop([w EXCEPT !.value[c] = val, !.dirty[c] = FALSE], c, val, 1), c)

\* writable.set after its guard and invalidate(): prevValue = value;
\* value = newValue; dirty = false; the loop over run; return value
assign(w, c, val) ==
  ReturnValue(runLoop([w EXCEPT !.value[c] = val, !.dirty[c] = FALSE], c, w.value[c], 1), c)

\* set without its call of invalidate(): the value callbacks come unannounced
set_NoInvalidate(w, c, val) ==
  IF ~w.dirty[c] /\ ~shouldUpdate(w.value[c], val, skipSubscribersWhenEqual(c))
  THEN ReturnValue(w, c)
  ELSE assign(w, c, val)

\* set without the equality policy: every call notifies
set_NoSkip(w, c, val) ==
  assign(invalidate(w, c), c, val)

\* set whose guard does not look at the dirty flag
set_IgnoresDirty(w, c, val) ==
  IF ~shouldUpdate(w.value[c], val, skipSubscribersWhenEqual(c))
  THEN ReturnValue(w, c)
  ELSE assign(invalidate(w, c), c, val)

\* set that stores the new value before it invalidates
set_StoreFirst(w, c, val) ==
  IF ~w.dirty[c] /\ ~shouldUpdate(w.value[c], val, skipSubscribersWhenEqual(c))
  THEN ReturnValue(w, c)
  ELSE ReturnValue(runLoop([invalidate([w EXCEPT !.value[c] = val], c)
                              EXCEPT !.dirty[c] = FALSE], c, w.value[c], 1), c)

set(w, c, val) ==
  IF ~w.dirty[c] /\ ~shouldUpdate(w.value[c], val, skipSubscribersWhenEqual(c))
  THEN ReturnValue(w, c)
  ELSE assign(invalidate(w, c), c, val)

\* one subscriber's value callback
deliver(w, c, e, v, p, by) ==
  CASE e.k = "dep" -> depRun(Logged(Observed(w, "val", c, e, by),
                                    Ev("val", c, e, v, p, <<>>, <<>>)), e.d, e.i, v)
    [] e.k = "get" -> [Logged(Observed(w, "val", c, e, by), Ev("val", c, e, v, p, <<>>, <<>>))
                         EXCEPT !.got = v, !.called = TRUE]
    [] OTHER -> Logged(Observed(w, "val", c, e, by), Ev("val", c, e, v, p, <<>>, <<>>))

\* the body of the caller's value callback: handle 1's may cancel its own
\* subscription, cancel handle 2's, subscribe one more pair to the cell
\* (once: it keeps a flag), or do if (S.get() !== 1) S.set(1)
reactRun(w, c, e) ==
  CASE e = Reactor /\ react = "unsubSelfInRun" -> unsubscribe(w, c, e)
    [] e = Reactor /\ react = "unsubOtherInRun" /\ handle[2] # "" ->
         unsubscribe(w, handle[2], Other)
    [] e = Reactor /\ react = "subscribeInRun"
         /\ (\A x \in Cells : IndexOf(w.subscribers[x], Late) = 0) ->
         subscribe(w, c, Late)
    [] e = Reactor /\ react = "setInRun" /\ w.value["S"] # Num(1) ->
         set(w, "S", Num(1))
    [] OTHER -> w

\* run(value, prevValue) from the loop of set
callRun(w, c, e, v, p) == reactRun(deliver(w, c, e, v, p, "set"), c, e)

\* the end of the internal subscriber: stopPreviousUpdate = update(...);
\* depPrevValues = [...depValues]
updated(w, d) ==
  [w EXCEPT !.stopPreviousUpdate[d] = ReturnsStopper(d), !.held[d] = w.made,
            !.depPrevValues[d] = w.depValues[d]]

\* the internal subscriber that goes on to the next update without running
\* the stop action of the previous one
propagate_NoStop(w, d) ==
  IF skipDirtyDeps(d) /\ (\E m \in 1..Len(Deps(d)) : w.depDirty[d][m]) THEN w
  ELSE updated(update(w, d, w.depValues[d], w.value[d], w.depPrevValues[d]), d)

\* the internal subscriber that waits for the dirty slots whatever
\* options.skipDirtyDeps says
propagate_AlwaysWaits(w, d) ==
  IF \E m \in 1..Len(Deps(d)) : w.depDirty[d][m] THEN w
  ELSE updated(update(runStopPreviousUpdate(w, d), d,
                      w.depValues[d], w.value[d], w.depPrevValues[d]), d)

\* the internal subscriber past its bookkeeping
propagate(w, d) ==
  IF skipDirtyDeps(d) /\ (\E m \in 1..Len(Deps(d)) : w.depDirty[d][m]) THEN w
  ELSE updated(update(runStopPreviousUpdate(w, d), d,
                      w.depValues[d], w.value[d], w.depPrevValues[d]), d)

\* the internal subscriber that records the previous value on every
\* delivery, not only while the cell is starting
depRun_AlwaysRecords(w, d, i, v) ==
  propagate([w EXCEPT !.depValues[d][i] = v,
                      !.depPrevValues[d][i] = v,
                      !.depDirty[d][i] = FALSE], d)

\* the internal subscriber that leaves its slot marked dirty
depRun_KeepsDirty(w, d, i, v) ==
  propagate([w EXCEPT !.depValues[d][i] = v,
                      !.depPrevValues[d][i] = IF w.starting[d] THEN v ELSE @], d)

\* the internal subscriber for the i-th dependency of d
depRun(w, d, i, v) ==
  propagate([w EXCEPT !.depValues[d][i] = v,
                      !.depPrevValues[d][i] = IF w.starting[d] THEN v ELSE @,
                      !.depDirty[d][i] = FALSE], d)

\* the invalidation callback that marks the slot and does not invalidate
\* the cell itself
depInvalidate_NoForward(w, d, i) ==
  [w EXCEPT !.depDirty[d][i] = TRUE]

\* the invalidation callback for the i-th dependency of d
depInvalidate(w, d, i) ==
  invalidate([w EXCEPT !.depDirty[d][i] = TRUE], d)

\* the values the sources of d hold at the moment its update function is
\* invoked, noted next to the invocation
Fed(w, d) ==
  [w EXCEPT !.fed = Append(@, [cell |-> d,
                               cur |-> [i \in 1..Len(Deps(d)) |-> w.value[Under(Deps(d)[i])]]])]

\* options.update: set(fn(stores, pVal, pDeps)) during the call, or owed
update(w, d, depVals, pVal, pDeps) ==
  IF Form(d) = "deferred"
  THEN [Logged(Fed(w, d), Ev("update", d, NoEntry, Undefined, pVal, depVals, pDeps))
          EXCEPT !.pending[d] = [on |-> TRUE, v |-> Fn(d, depVals, pVal, pDeps)],
                 !.made = NextStopId(w, d)]
  ELSE [set(Logged(Fed(w, d), Ev("update", d, NoEntry, Undefined, pVal, depVals, pDeps)),
            d, Fn(d, depVals, pVal, pDeps))
          EXCEPT !.made = NextStopId(w, d)]

\* the start hook: of S, the caller's, which notes how many subscribers the
\* cell has when it runs (so does the stopper it returns); of a derived
\* cell, derived.ts
startLoop(w, d, i) ==
  IF i > Len(Deps(d)) THEN w
  ELSE startLoop([storeSubscribe([w EXCEPT !.depDirty[d][i] = TRUE],
                                 Deps(d)[i], DepEntry(d, i))
                    EXCEPT !.depUnsubscribers[d][i] = TRUE], d, i + 1)

start(w, c) ==
  IF c \in Writables
  THEN [Logged(w, Ev("start", c, NoEntry, Num(Len(w.subscribers[c])), Undefined, <<>>, <<>>))
          EXCEPT !.hookOn[c] = TRUE]
  ELSE [startLoop([w EXCEPT !.starting[c] = TRUE], c, 1)
          EXCEPT !.hasAnySubscribers[c] = TRUE, !.starting[c] = FALSE]

\* the stopper that leaves the internal subscribers on the sources
stopperLoop_KeepsDeps(w, d, i) == w

\* cancelling with a function that takes the unsubscriber for a function
\* whatever it is: calling an object throws
cancel_FunctionOnly(w, src, e) ==
  IF UnsubscriberOf(src) = "function" THEN unsubscribe(w, Under(src), e)
  ELSE [w EXCEPT !.ok = FALSE, !.ret = Undefined]

\* if (typeof unsub === 'function') unsub(); else unsub.unsubscribe();
cancel(w, src, e) ==
  IF UnsubscriberOf(src) = "function" THEN unsubscribe(w, Under(src), e)
  ELSE unsubscribe(w, Under(src), e)

\* the stopper the start hook returned
stopperLoop(w, d, i) ==
  IF i > Len(Deps(d)) THEN w
  ELSE stopperLoop(cancel(w, Deps(d)[i], DepEntry(d, i)), d, i + 1)

\* the stopper's resets
forget(w, c) ==
  [w EXCEPT !.stopPreviousUpdate[c] = FALSE,
            !.hasAnySubscribers[c] = FALSE,
            !.depValues[c] = Holes(c),
            !.depPrevValues[c] = Holes(c),
            !.depUnsubscribers[c] = [i \in 1..Len(Deps(c)) |-> FALSE]]

\* the stopper without its final set(initial)
stopper_NoReset(w, c) ==
  IF c \in Writables
  THEN [Logged(w, Ev("stop", c, NoEntry, Num(Len(w.subscribers[c])), Undefined, <<>>, <<>>))
          EXCEPT !.hookOn[c] = FALSE]
  ELSE forget(runStopPreviousUpdate(stopperLoop(w, c, 1), c), c)

\* the stopper that writes the initial value into the cell itself instead
\* of calling set: the dirty flag stays as it is
stopper_StoresInitial(w, c) ==
  IF c \in Writables
  THEN [Logged(w, Ev("stop", c, NoEntry, Num(Len(w.subscribers[c])), Undefined, <<>>, <<>>))
          EXCEPT !.hookOn[c] = FALSE]
  ELSE [forget(runStopPreviousUpdate(stopperLoop(w, c, 1), c), c) EXCEPT !.value[c] = initial(c)]

stopper(w, c) ==
  IF c \in Writables
  THEN [Logged(w, Ev("stop", c, NoEntry, Num(Len(w.subscribers[c])), Undefined, <<>>, <<>>))
          EXCEPT !.hookOn[c] = FALSE]
  ELSE set(forget(runStopPreviousUpdate(stopperLoop(w, c, 1), c), c), c, initial(c))

\* subscribers.push(obj)
push(w, c, e) == [w EXCEPT !.subscribers[c] = Append(@, e)]

\* listen that makes the immediate call all the same
listen_Runs(w, c, e) ==
  IF Len(w.subscribers[c]) = 0
  THEN firstRun(push([start(w, c) EXCEPT !.stop[c] = TRUE], c, e), c, e)
  ELSE firstRun(push(w, c, e), c, e)

\* listen that runs the start hook for every subscriber, not only the first
listen_AlwaysStarts(w, c, e) ==
  push([start(w, c) EXCEPT !.stop[c] = TRUE], c, e)

\* writable.listen
listen(w, c, e) ==
  IF Len(w.subscribers[c]) = 0
  THEN push([start(w, c) EXCEPT !.stop[c] = TRUE], c, e)
  ELSE push(w, c, e)

\* run(value, value)
firstRun(w, c, e) == deliver(w, c, e, w.value[c], w.value[c], "subscribe")

\* subscribe as the older core.ts has it: run(value) first, then listen
subscribe_RunFirst(w, c, e) == listen(firstRun(w, c, e), c, e)

\* writable.subscribe
subscribe(w, c, e) == firstRun(listen(w, c, e), c, e)

\* the last-subscriber test without the count: every unsubscribe stops
lastOut_NoCount(w, c) ==
  IF w.stop[c] THEN stopper(w, c) ELSE w

\* if (subscribers.length === 0 && stop) stop()
lastOut(w, c) ==
  IF Len(w.subscribers[c]) = 0 /\ w.stop[c] THEN stopper(w, c) ELSE w

\* unsubscribe without the index check: a stale handle goes on to the
\* last-subscriber test and reports true
unsubscribe_NoCheck(w, c, e) ==
  IF IndexOf(w.subscribers[c], e) = 0 THEN Return(lastOut(w, c), TRUE)
  ELSE Return(lastOut([w EXCEPT !.subscribers[c] =
                                  Splice(@, IndexOf(w.subscribers[c], e))], c), TRUE)

\* unsubscribe that looks its pair up by the callbacks in it: it removes
\* the first entry of the same kind
unsubscribe_ByCallback(w, c, e) ==
  IF \A j \in 1..Len(w.subscribers[c]) : w.subscribers[c][j].k # e.k THEN Return(w, FALSE)
  ELSE Return(lastOut([w EXCEPT !.subscribers[c] =
                         Splice(@, CHOOSE j \in 1..Len(w.subscribers[c]) :
                                     /\ w.subscribers[c][j].k = e.k
                                     /\ \A m \in 1..(j - 1) : w.subscribers[c][m].k # e.k)],
                      c), TRUE)

\* the unsubscribe function listen returned for entry e of cell c
unsubscribe(w, c, e) ==
  IF IndexOf(w.subscribers[c], e) = 0 THEN Return(w, FALSE)
  ELSE Return(lastOut([w EXCEPT !.subscribers[c] =
                                  Splice(@, IndexOf(w.subscribers[c], e))], c), TRUE)

\* the end of get(store) without the check: it returns what it has
collected_NoThrow(w) == Return(w, w.got)

\* if (!called) throw ...; return value
collected(w) ==
  IF ~w.called THEN [w EXCEPT !.ok = FALSE, !.ret = Undefined]
  ELSE Return(w, w.got)

\* store.subscribe(run, invalidate) of a source: a cell's own, or the
\* foreign wrapper's
storeSubscribe(w, src, e) ==
  IF src = "L" THEN listen(w, Under(src), e) ELSE subscribe(w, Under(src), e)

\* get(store) that subscribes and never cancels the subscription
getStoreValue_NoUnsubscribe(w, src) ==
  IF HasGet(src) THEN get(w, src)
  ELSE collected(storeSubscribe([w EXCEPT !.called = FALSE], src, GetEntry))

\* core.ts get(store)
getStoreValue(w, src) ==
  IF HasGet(src) THEN get(w, src)
  ELSE collected(cancel(storeSubscribe([w EXCEPT !.called = FALSE], src, GetEntry),
                        src, GetEntry))

\* deps.map(getStoreValue): the value just read joins the array
mapNext(w, d, i, acc) == mapGet(w, d, i + 1, Append(acc, w.ret))

mapGet(w, d, i, acc) ==
  IF i > Len(Deps(d)) THEN [w EXCEPT !.got = Undefined, !.ret = Undefined, !.depValues[d] = acc]
  ELSE mapNext(getStoreValue(w, Deps(d)[i]), d, i, acc)

\* derived.get that always answers with the committed value
derivedGet_Cached(w, d) == ReturnValue(w, d)

\* update(...)?.() in derived.get: the stop action is run at once
stopPulled(w, d) ==
  IF ReturnsStopper(d)
  THEN Stopped(Logged(w, Ev("stopper", d, NoEntry, Undefined, Undefined, <<>>, <<>>)),
               d, NextStopId(w, d) - 1)
  ELSE w

\* derived.get that passes the recorded previous source values
pull_RecordedPrevious(w, d) ==
  Return(stopPulled(Logged(w, Ev("update", d, NoEntry, Undefined, w.value[d],
                                 w.depValues[d], w.depPrevValues[d])), d),
         IF Form(d) = "deferred" THEN Undefined
         ELSE Fn(d, w.depValues[d], w.value[d], w.depPrevValues[d]))

\* derived.get with no subscribers, the dependencies read:
\* return fn(depValues, value, depValues)
pull(w, d) ==
  Return(stopPulled(Logged(w, Ev("update", d, NoEntry, Undefined, w.value[d],
                                 w.depValues[d], w.depValues[d])), d),
         IF Form(d) = "deferred" THEN Undefined
         ELSE Fn(d, w.depValues[d], w.value[d], w.depValues[d]))

\* derived.get
derivedGet(w, d) ==
  IF ~w.hasAnySubscribers[d]
  THEN pull(mapGet(w, d, 1, <<>>), d)
  ELSE ReturnValue(w, d)

\* store.get()
get(w, c) ==
  IF c \in Writables THEN ReturnValue(w, c) ELSE derivedGet(w, c)

\* ------------------------------------------------------------- actions
\* what the caller gets when the call throws new TypeError(...)
TypeError == [t |-> "TypeError", n |-> 0]

Commit(w) ==
  /\ steps < MaxSteps
  /\ steps' = steps + 1
  /\ value' = w.value
  /\ dirty' = w.dirty
  /\ subscribers' = w.subscribers
  /\ stop' = w.stop
  /\ depValues' = w.depValues
  /\ depPrevValues' = w.depPrevValues
  /\ depDirty' = w.depDirty
  /\ depUnsubscribers' = w.depUnsubscribers
  /\ stopPreviousUpdate' = w.stopPreviousUpdate
  /\ hasAnySubscribers' = w.hasAnySubscribers
  /\ starting' = w.starting
  /\ hookOn' = w.hookOn
  /\ ret' = IF w.ok THEN w.ret ELSE TypeError
  /\ log' = w.log
  /\ seen' = w.seen
  /\ pending' = w.pending
  /\ fed' = w.fed
  /\ stops' = w.stops
  /\ UNCHANGED <<skipMode, initialC, foreignB, eqCall, react, form, optSkipDirtyDeps>>

\* the call being made, with what the cell it addresses looked like before
Op(name, c, h, arg) ==
  [name |-> name, cell |-> c, h |-> h, arg |-> arg, fn |-> "",
   pre |-> [dirty |-> dirty[c], value |-> value[c],
            nsubs |-> Len(subscribers[c]), stop |-> stop[c]]]

EqCall(o, n, m) == [old |-> o, new |-> n, skip |-> m, result |-> shouldUpdate(o, n, m)]

\* every cell as its constructor leaves it, and no call made yet
Idle ==
  /\ value = [c \in Cells |-> IF c = "S" THEN Num(0) ELSE initial(c)]
  /\ dirty = [c \in Cells |-> FALSE]
  /\ subscribers = [c \in Cells |-> <<>>]
  /\ stop = [c \in Cells |-> FALSE]
  /\ depValues = [d \in Deriveds |-> Holes(d)]
  /\ depPrevValues = [d \in Deriveds |-> Holes(d)]
  /\ depDirty = [d \in Deriveds |-> [i \in 1..Len(Deps(d)) |-> TRUE]]
  /\ depUnsubscribers = [d \in Deriveds |-> [i \in 1..Len(Deps(d)) |-> FALSE]]
  /\ stopPreviousUpdate = [d \in Deriveds |-> FALSE]
  /\ hasAnySubscribers = [d \in Deriveds |-> FALSE]
  /\ starting = [d \in Deriveds |-> FALSE]
  /\ hookOn = [c \in Writables |-> FALSE]
  /\ handle = [h \in Handles |-> ""]
  /\ steps = 0
  /\ eqCall = EqCall(Undefined, Undefined, "never")
  /\ op = [name |-> "new", cell |-> "", h |-> 0, arg |-> Undefined, fn |-> "",
           pre |-> [dirty |-> FALSE, value |-> Undefined, nsubs |-> 0, stop |-> FALSE]]
  /\ ret = Undefined
  /\ log = <<>>
  /\ seen = <<>>
  /\ pending = [d \in Deriveds |-> NoPending]
  /\ fed = <<>>
  /\ stops = <<>>

\* the network as constructed, with callbacks that only record their calls
Init ==
  /\ skipMode \in Modes
  /\ initialC \in {Undefined, Num(1)}
  /\ foreignB \in BOOLEAN
  /\ react = "none"
  /\ form = "simple"
  /\ optSkipDirtyDeps = TRUE
  /\ Idle

\* S.set(v)
Set(c, v) ==
  /\ op' = Op("set", c, 0, v)
  /\ Commit(set(World, c, v))
  /\ UNCHANGED handle

\* S.invalidate(): the function returns nothing, whatever the callbacks it
\* called returned
Invalidate(c) ==
  /\ op' = Op("invalidate", c, 0, Undefined)
  /\ Commit(Return(invalidate(World, c), Undefined))
  /\ UNCHANGED handle

\* the handles whose entry is registered nowhere; a new subscription takes
\* the least of them (handles are only names)
Free(h) == \A x \in Cells : IndexOf(subscribers[x], ExtEntry(h)) = 0
NextFree(h) == Free(h) /\ \A g \in Handles : g < h => ~Free(g)

\* what listen and subscribe return: the unsubscribe function of the entry
\* they registered (callable, and carrying itself as .unsubscribe)
Unsubscriber(e) == [t |-> "function", n |-> e.i]

\* h = c.subscribe(run, inv): returns the unsubscriber, whatever the calls
\* made on the way returned
Subscribe(c, h) ==
  /\ NextFree(h)
  /\ op' = Op("subscribe", c, h, Undefined)
  /\ Commit(Return(subscribe(World, c, ExtEntry(h)), Unsubscriber(ExtEntry(h))))
  /\ handle' = [handle EXCEPT ![h] = c]

\* h = c.listen(run, inv)
Listen(c, h) ==
  /\ NextFree(h)
  /\ op' = Op("listen", c, h, Undefined)
  /\ Commit(Return(listen(World, c, ExtEntry(h)), Unsubscriber(ExtEntry(h))))
  /\ handle' = [handle EXCEPT ![h] = c]

\* h()
Unsubscribe(h) ==
  /\ handle[h] # ""
  /\ op' = Op("unsubscribe", handle[h], h, Undefined)
  /\ Commit(unsubscribe(World, handle[h], ExtEntry(h)))
  /\ UNCHANGED handle

\* c.get()
Get(c) ==
  /\ op' = Op("get", c, 0, Undefined)
  /\ Commit(get(World, c))
  /\ UNCHANGED handle

\* get(store), the one-shot read helper, on a cell or a foreign store
GetStore(src) ==
  /\ op' = [Op("getStore", Under(src), 0, Undefined) EXCEPT !.cell = src]
  /\ Commit(getStoreValue(World, src))
  /\ UNCHANGED handle

Next ==
  \/ \E c \in Writables, v \in SetVals : Set(c, v)
  \/ \E c \in Writables : Invalidate(c)
  \/ \E c \in Cells, h \in Handles : Subscribe(c, h)
  \/ \E c \in Cells, h \in Handles : Listen(c, h)
  \/ \E h \in Handles : Unsubscribe(h)
  \/ \E c \in Cells : Get(c)

Spec == Init /\ [][Next]_vars

\* ------------------------------------- the equality policy on its own
\* shouldUpdate(o, n, m)
ShouldUpdate(o, n, m) ==
  /\ eqCall' = EqCall(o, n, m)
  /\ UNCHANGED <<value, dirty, subscribers, stop, depValues, depPrevValues, depDirty,
                 depUnsubscribers, stopPreviousUpdate, hasAnySubscribers, starting,
                 hookOn, handle, skipMode, initialC, foreignB, steps, react, seen,
                 form, pending, fed, optSkipDirtyDeps, stops, op, ret, log>>

NextPolicy == \E o \in JSVals, n \in JSVals, m \in Modes : ShouldUpdate(o, n, m)

SpecPolicy == Init /\ [][NextPolicy]_vars

\* ------------------- callbacks that act on the store, and the read helper
Stores == Cells \cup {"F", "L", "P"}

InitReact ==
  /\ skipMode = "primitive"
  /\ initialC = Undefined
  /\ foreignB = FALSE
  /\ react \in Behaviours
  /\ form = "simple"
  /\ optSkipDirtyDeps = TRUE
  /\ Idle

NextReact ==
  \/ Next
  \/ \E src \in Stores : GetStore(src)

SpecReact == InitReact /\ [][NextReact]_vars

\* --------- update functions with stop actions, and the rest of the API
\* the functions a caller passes to S.update
Updaters == {"inc", "same", "obj"}
Apply(f, v) ==
  CASE f = "inc" -> UpdateA(v)
    [] f = "same" -> v
    [] f = "obj" -> Obj(1)

\* update that stores the result itself and tells no subscriber
writableUpdate_Silent(w, c, f) ==
  ReturnValue([w EXCEPT !.value[c] = Apply(f, w.value[c])], c)

\* writable.update
writableUpdate(w, c, f) == set(w, c, Apply(f, w.value[c]))

\* S.update(f)
Update(c, f) ==
  /\ op' = [Op("update", c, 0, Undefined) EXCEPT !.fn = f]
  /\ Commit(writableUpdate(World, c, f))
  /\ UNCHANGED handle

\* the setter call a deferred update function owes is made
Resolve(d) ==
  /\ pending[d].on
  /\ op' = Op("resolve", d, 0, pending[d].v)
  /\ Commit(set([World EXCEPT !.pending[d] = NoPending], d, pending[d].v))
  /\ UNCHANGED handle

InitUpdate ==
  /\ skipMode = "primitive"
  /\ initialC = Undefined
  /\ foreignB = FALSE
  /\ react = "none"
  /\ form \in {"stopper", "deferred"}
  /\ optSkipDirtyDeps = TRUE
  /\ Idle

NextUpdate ==
  \/ Next
  \/ \E c \in Writables, f \in Updaters : Update(c, f)
  \/ \E d \in Deriveds : Resolve(d)

SpecUpdate == InitUpdate /\ [][NextUpdate]_vars

\* ------------------ derived cells built with { skipDirtyDeps: false }
InitEager ==
  /\ skipMode = "primitive"
  /\ initialC \in {Undefined, Num(1)}
  /\ foreignB = FALSE
  /\ react = "none"
  /\ form = "simple"
  /\ optSkipDirtyDeps = FALSE
  /\ Idle

SpecEager == InitEager /\ [][Next]_vars

\* --- callbacks that unsubscribe or set S from inside a set on S, with A's
\* update function returning a stop action
Nested == {"unsubSelfInRun", "setInRun"}

InitNested ==
  /\ skipMode = "primitive"
  /\ initialC = Undefined
  /\ foreignB = FALSE
  /\ react \in Nested
  /\ form = "stopper"
  /\ optSkipDirtyDeps = TRUE
  /\ Idle

SpecNested == InitNested /\ [][Next]_vars

\* ------------------------------------------------------- reading the log
\* the invocations of d's update function during the last call
UpdatesOf(d) == SelectSeq(log, LAMBDA e : e.t = "update" /\ e.cell = d)

\* the subscriber callbacks cell c made during the last call
CallbacksOf(c) == SelectSeq(log, LAMBDA e : e.cell = c /\ e.t \in {"inv", "val"})
InvalidationsOf(c) == SelectSeq(log, LAMBDA e : e.cell = c /\ e.t = "inv")
ValueCallsOf(c) == SelectSeq(log, LAMBDA e : e.cell = c /\ e.t = "val")

InvEv(c, e) == Ev("inv", c, e, Undefined, Undefined, <<>>, <<>>)
ValEv(c, e, v, p) == Ev("val", c, e, v, p, <<>>, <<>>)

\* the last call was the first subscribe or listen on an idle cell
Activated(d) == op.name \in {"subscribe", "listen"} /\ op.cell = d /\ op.pre.nsubs = 0

\* the last call removed the last subscriber of a cell
TornDown(d) ==
  op.name = "unsubscribe" /\ op.cell = d /\ ret = TRUE /\ Len(subscribers[d]) = 0

\* the equality policy as section 4.1 of the specification words it
IsPrimitiveValue(v) ==
  \/ v.t \in {"boolean", "number", "NaN", "bigint", "string", "symbol", "undefined"}
  \/ v = Null
NotifyWarranted(old, new, mode) ==
  IF ~StrictEq(old, new) THEN TRUE
  ELSE (mode = "never") \/ (mode = "primitive" /\ ~IsPrimitiveValue(new))

\* ------------------------------------------------------------- claims

\* C1: in the diamond, with C subscribed, every S.set(x) that changes S's
\* value invokes C's update function exactly once, with A's and B's
\* post-update values together.
C1_DiamondNoGlitch ==
  (op.name = "set" /\ op.cell = "S" /\ op.pre.value # op.arg /\ Len(subscribers["C"]) > 0)
    => /\ Len(UpdatesOf("C")) = 1
       /\ UpdatesOf("C")[1].deps = <<UpdateA(op.arg), UpdateB(op.arg)>>

\* C2: a notifying set on a clean cell fires the invalidation callbacks of
\* all its subscribers in subscription order, and only then the value
\* callbacks, in subscription order, with (new value, previous value).
C2_InvalidateThenNotify ==
  (op.name = "set" /\ ~op.pre.dirty /\ NotifyWarranted(op.pre.value, op.arg, skipSubscribersWhenEqual(op.cell)))
    => LET subs == subscribers[op.cell]
           invs == SelectSeq(subs, LAMBDA e : e.inv)
       IN CallbacksOf(op.cell) =
            [j \in 1..Len(invs) |-> InvEv(op.cell, invs[j])]
              \o [j \in 1..Len(subs) |-> ValEv(op.cell, subs[j], op.arg, op.pre.value)]

C2_Witness ==
  /\ op.name = "set" /\ ~op.pre.dirty
  /\ Len(subscribers["S"]) >= 2
  /\ Len(CallbacksOf("S")) = 2 * Len(subscribers["S"])

\* C3: every idle->active transition of a derived cell with two or more
\* sources invokes the update function exactly once, after every source has
\* delivered its current value, with the full vector of source values.
C3_ActivationUpdatesOnce ==
  \A d \in Deriveds :
    (Len(Deps(d)) >= 2 /\ Activated(d))
      => /\ Len(UpdatesOf(d)) = 1
         /\ UpdatesOf(d)[1].deps = [i \in 1..Len(Deps(d)) |-> value[Under(Deps(d)[i])]]
         /\ \E k \in 1..Len(log) :
              /\ log[k].t = "update" /\ log[k].cell = d
              /\ \A i \in 1..Len(Deps(d)) :
                   \E j \in 1..(k - 1) : log[j].t = "val" /\ log[j].who = DepEntry(d, i)

\* C4: after the last subscriber of a derived cell unsubscribes, every
\* dependency slot of that cell is dirty.
C4_TeardownSlotsDirty ==
  \A d \in Deriveds :
    TornDown(d) => \A i \in 1..Len(Deps(d)) : depDirty[d][i]

\* C5: an idle derived cell holds its configured initial value (undefined
\* when none was configured): teardown resets it, and the first update after
\* a re-activation receives it as previous value.
C5_TeardownResetsValue ==
  \A d \in Deriveds :
    /\ ~hasAnySubscribers[d] => value[d] = initial(d)
    /\ Activated(d) => (UpdatesOf(d) # <<>> /\ UpdatesOf(d)[1].b = initial(d))

C5_Witness ==
  /\ TornDown("C")
  /\ op.pre.value # initial("C")
  /\ value["C"] = initial("C")

\* C6: get() on a derived cell with no subscribers leaves no subscription
\* on any source, no lifecycle hook started, and the cell's value, dirty flag
\* and idle state as they were.
C6_IdleGetChangesNothing ==
  [][(op'.name = "get" /\ op'.cell \in Deriveds /\ ~hasAnySubscribers[op'.cell])
       => /\ subscribers' = subscribers
          /\ hookOn' = hookOn
          /\ value' = value
          /\ dirty' = dirty
          /\ hasAnySubscribers' = hasAnySubscribers]_vars

C6_Witness ==
  /\ op.name = "get" /\ op.cell = "C" /\ ~hasAnySubscribers["C"]
  /\ \E j \in 1..Len(log) : log[j].t = "start" /\ log[j].cell = "S"
  /\ \E j \in 1..Len(log) : log[j].t = "val" /\ log[j].who = GetEntry
  /\ ~hookOn["S"]

\* what a source delivers to a one-shot read: a plain cell its value, an
\* active derived cell its committed value, an idle one its update
\* function's result for its own sources
RECURSIVE Fresh(_)
Fresh(src) ==
  LET c == Under(src)
  IN IF c \in Writables \/ hasAnySubscribers[c] THEN value[c]
     ELSE LET vs == [i \in 1..Len(Deps(c)) |-> Fresh(Deps(c)[i])]
          IN Fn(c, vs, initial(c), vs)

\* C7: get() on an idle derived cell returns the update function's result
\* for the sources' values at the time of the call, never a cached value.
C7_IdleGetIsFresh ==
  (op.name = "get" /\ op.cell \in Deriveds /\ ~hasAnySubscribers[op.cell])
    => ret = Fresh(op.cell)

C7_Witness ==
  /\ op.name = "get" /\ op.cell = "C" /\ ~hasAnySubscribers["C"]
  /\ stop["C"]
  /\ value["S"] = Num(1)
  /\ ret = UpdateC(Num(2), Num(2), initial("C"))

\* C8: shouldUpdate(old, new, mode) is true whenever old and new are not
\* identity-equal; for identity-equal values it is true for 'never', false
\* for 'always', and for 'primitive' false exactly for primitives.
C8_EqualityPolicy ==
  eqCall.result = NotifyWarranted(eqCall.old, eqCall.new, eqCall.skip)

C8_Witness ==
  /\ eqCall.skip = "primitive" /\ eqCall.old = Null /\ eqCall.new = Null
  /\ eqCall.result = FALSE

\* C9: set(v) on a clean cell, when the equality policy warrants no
\* notification, returns the existing value and changes nothing.
C9_SkippedSetChangesNothing ==
  [][(op'.name = "set" /\ ~dirty[op'.cell]
        /\ ~NotifyWarranted(value[op'.cell], op'.arg, skipSubscribersWhenEqual(op'.cell)))
       => /\ ret' = value[op'.cell]
          /\ log' = <<>>
          /\ UNCHANGED <<value, dirty, subscribers, stop, depValues, depPrevValues,
                         depDirty, depUnsubscribers, stopPreviousUpdate,
                         hasAnySubscribers, starting, hookOn, handle>>]_vars

C9_Witness ==
  /\ op.name = "set" /\ ~op.pre.dirty /\ op.arg = op.pre.value
  /\ Len(subscribers["S"]) > 0
  /\ log = <<>>
  /\ ret = op.pre.value

\* C10: set(v) on a dirty cell stores v, clears the dirty flag and calls
\* every subscriber's value callback, whatever the equality mode and the
\* value, and fires no invalidation callback of the cell.
C10_DirtySetAlwaysNotifies ==
  (op.name = "set" /\ op.pre.dirty)
    => /\ value[op.cell] = op.arg
       /\ ~dirty[op.cell]
       /\ ret = op.arg
       /\ InvalidationsOf(op.cell) = <<>>
       /\ ValueCallsOf(op.cell) =
            [j \in 1..Len(subscribers[op.cell]) |->
               ValEv(op.cell, subscribers[op.cell][j], op.arg, op.pre.value)]

C10_Witness ==
  /\ op.name = "set" /\ op.pre.dirty /\ op.arg = op.pre.value
  /\ skipMode = "always"
  /\ Len(ValueCallsOf("S")) > 0

\* the subscriber callbacks of cell c in a log, and the invalidations alone
CallbacksIn(l, c) == SelectSeq(l, LAMBDA e : e.cell = c /\ e.t \in {"inv", "val"})
InvalidationsIn(l, c) == SelectSeq(l, LAMBDA e : e.cell = c /\ e.t = "inv")

\* the pairs of a cell that came with an invalidation callback, in order
WithInvalidator(c) == SelectSeq(subscribers[c], LAMBDA e : e.inv)

\* C11: invalidate() on a clean cell sets the dirty flag and calls each
\* subscriber's invalidation callback once, in subscription order, and no
\* value callback; on a dirty cell it calls nothing and changes nothing.
\* A cell fires invalidation callbacks only when it was clean, and only a
\* set makes it clean again.
C11_InvalidateIdempotent ==
  [][/\ (op'.name = "invalidate" /\ dirty[op'.cell])
          => /\ log' = <<>>
             /\ UNCHANGED <<value, dirty, subscribers, stop, depValues, depPrevValues,
                            depDirty, depUnsubscribers, stopPreviousUpdate,
                            hasAnySubscribers, starting, hookOn, handle>>
     /\ (op'.name = "invalidate" /\ ~dirty[op'.cell])
          => /\ dirty'[op'.cell]
             /\ value'[op'.cell] = value[op'.cell]
             /\ CallbacksIn(log', op'.cell) =
                  [j \in 1..Len(WithInvalidator(op'.cell)) |->
                     InvEv(op'.cell, WithInvalidator(op'.cell)[j])]
     /\ \A c \in Writables :
          /\ InvalidationsIn(log', c) # <<>> => ~dirty[c]
          /\ (dirty[c] /\ ~dirty'[c]) => (op'.name = "set" /\ op'.cell = c)]_vars

C11_Witness ==
  /\ op.name = "invalidate" /\ op.pre.dirty
  /\ Len(WithInvalidator("S")) >= 2
  /\ dirty["S"]
  /\ log = <<>>

\* the callbacks the last call made to one pair
CallsTo(e) == SelectSeq(log, LAMBDA x : x.who = e /\ x.t \in {"inv", "val"})

\* C12: subscribe(run, inv) leaves the pair registered and calls run exactly
\* once, as the last thing it does, with (value, value) for the value the
\* cell holds after its lifecycle hook ran; it does not call inv. A first
\* subscriber's hook runs before that call, and what the hook set is what
\* the call delivers.
C12_SubscribeRunsAfterHook ==
  op.name = "subscribe"
    => LET e == ExtEntry(op.h)
           c == op.cell
       IN /\ subscribers[c] # <<>> /\ subscribers[c][Len(subscribers[c])] = e
          /\ CallsTo(e) = <<ValEv(c, e, value[c], value[c])>>
          /\ log[Len(log)] = ValEv(c, e, value[c], value[c])
          /\ (op.pre.nsubs = 0 /\ c \in Writables)
               => (hookOn[c] /\ log[1].t = "start" /\ log[1].cell = c)
          /\ (op.pre.nsubs = 0 /\ c \in Deriveds)
               => /\ hasAnySubscribers[c]
                  /\ UpdatesOf(c) # <<>>
                  /\ LET u == UpdatesOf(c)[Len(UpdatesOf(c))]
                     IN value[c] = Fn(c, u.deps, u.b, u.pdeps)

C12_Witness ==
  /\ op.name = "subscribe" /\ op.cell = "A" /\ op.pre.nsubs = 0
  /\ op.pre.value = Undefined
  /\ value["A"] = Num(1)
  /\ CallsTo(ExtEntry(op.h)) = <<ValEv("A", ExtEntry(op.h), Num(1), Num(1))>>

\* C13: listen(run, inv) leaves the pair registered last, having run the
\* lifecycle hook if it is the first subscriber, and calls neither run nor
\* inv; a later notifying set of the cell calls the run of every registered
\* pair once, with (new value, previous value).
C13_ListenRegistersSilently ==
  /\ op.name = "listen"
       => LET e == ExtEntry(op.h)
              c == op.cell
          IN /\ Len(subscribers[c]) = op.pre.nsubs + 1
             /\ subscribers[c][Len(subscribers[c])] = e
             /\ CallsTo(e) = <<>>
             /\ \A j \in 1..Len(seen) : seen[j].who # e
             /\ stop[c]
             /\ (op.pre.nsubs = 0 /\ c \in Writables)
                  => (hookOn[c] /\ log = <<Ev("start", c, NoEntry, Num(0), Undefined, <<>>, <<>>)>>)
             /\ (op.pre.nsubs = 0 /\ c \in Deriveds)
                  => (hasAnySubscribers[c] /\ UpdatesOf(c) # <<>>)
             /\ op.pre.nsubs > 0 => log = <<>>
  /\ (op.name = "set"
        /\ (op.pre.dirty \/ NotifyWarranted(op.pre.value, op.arg, skipSubscribersWhenEqual(op.cell))))
       => \A j \in 1..Len(subscribers[op.cell]) :
            LET e == subscribers[op.cell][j]
            IN SelectSeq(CallsTo(e), LAMBDA x : x.t = "val")
                 = <<ValEv(op.cell, e, op.arg, op.pre.value)>>

C13_Witness ==
  /\ op.name = "listen" /\ op.cell = "S" /\ op.pre.nsubs = 1
  /\ subscribers["S"] = <<ExtEntry(1), ExtEntry(2)>>
  /\ log = <<>>

\* C15: calling an unsubscribe handle whose pair is registered removes that
\* one pair and returns true; calling it when the pair is no longer
\* registered (a second call) returns false, fires no callback or stop
\* action and changes nothing.
C15_SecondUnsubscribeIsNoOp ==
  [][op'.name = "unsubscribe"
       => IF IndexOf(subscribers[op'.cell], ExtEntry(op'.h)) = 0
          THEN /\ ret' = FALSE
               /\ log' = <<>>
               /\ UNCHANGED <<value, dirty, subscribers, stop, depValues, depPrevValues,
                              depDirty, depUnsubscribers, stopPreviousUpdate,
                              hasAnySubscribers, starting, hookOn, handle>>
          ELSE /\ ret' = TRUE
               /\ subscribers'[op'.cell] =
                    Splice(subscribers[op'.cell],
                           IndexOf(subscribers[op'.cell], ExtEntry(op'.h)))]_vars

C15_Witness ==
  /\ op.name = "unsubscribe" /\ op.cell = "S"
  /\ ret = FALSE
  /\ subscribers["S"] = <<>>
  /\ stop["S"] /\ ~hookOn["S"]
  /\ log = <<>>

\* every subscriber callback of the last call, in order
AllCallbacks == SelectSeq(log, LAMBDA e : e.t \in {"inv", "val"})

\* the value a cell held when its j-th callback of the last call, an
\* invalidation, was made: the previous value its next value callback to
\* the same pair reports, or the cell's value if no set followed in the call
CommittedAt(j) ==
  LET later == {k \in (j + 1)..Len(AllCallbacks) :
                  /\ AllCallbacks[k].t = "val"
                  /\ AllCallbacks[k].cell = AllCallbacks[j].cell
                  /\ AllCallbacks[k].who = AllCallbacks[j].who}
  IN IF later = {} THEN value[AllCallbacks[j].cell]
     ELSE AllCallbacks[CHOOSE k \in later : \A m \in later : k <= m].b

\* C19: a callback that asks its cell during an invalidation finds
\* isDirty() true and get() the last committed value; during a value
\* callback made by a set it finds isDirty() false and get() the new value.
C19_CallbacksSeeConsistentCell ==
  /\ Len(seen) = Len(AllCallbacks)
  /\ \A j \in 1..Len(seen) :
       /\ seen[j].t = AllCallbacks[j].t
       /\ seen[j].cell = AllCallbacks[j].cell
       /\ seen[j].who = AllCallbacks[j].who
       /\ seen[j].t = "inv"
            => (seen[j].isDirty /\ seen[j].active /\ seen[j].raw = CommittedAt(j))
       /\ (seen[j].t = "val" /\ seen[j].by = "set")
            => (~seen[j].isDirty /\ seen[j].active /\ seen[j].raw = AllCallbacks[j].a)
       /\ (seen[j].t = "inv" /\ seen[j].cell = op.cell /\ op.name \in {"set", "invalidate"})
            => seen[j].raw = op.pre.value

C19_Witness ==
  /\ op.name = "set" /\ op.cell = "S" /\ op.pre.value = Num(0) /\ op.arg = Num(1)
  /\ \E j \in 1..Len(seen) :
       seen[j].t = "inv" /\ seen[j].who = ExtEntry(1) /\ seen[j].cell = "S"
         /\ seen[j].isDirty /\ seen[j].raw = Num(0)
  /\ \E j \in 1..Len(seen) :
       seen[j].t = "val" /\ seen[j].who = ExtEntry(1) /\ seen[j].cell = "S"
         /\ ~seen[j].isDirty /\ seen[j].raw = Num(1)

\* the callbacks made to one pair, in a log
CallsToIn(l, e) == SelectSeq(l, LAMBDA x : x.who = e /\ x.t \in {"inv", "val"})

\* the single-source derived cells over S
SingleOverS == {d \in Deriveds : single(d) /\ Under(Deps(d)[1]) = "S"}

\* C20: with b = derived(a, f) active, a.invalidate() on the clean a makes
\* exactly one invalidation call and no value call to each subscriber of b;
\* the a.set(x) that follows makes exactly one value call (f(x), previous
\* value of b) and no invalidation call; a notifying a.set(x) on the clean
\* a makes one invalidation call followed by one value call.
C20_SingleSourceWave ==
  [][\A d \in SingleOverS :
       \A j \in 1..Len(subscribers[d]) :
         LET e == subscribers[d][j]
             run == ValEv(d, e, Fn(d, <<op'.arg>>, value[d], depPrevValues[d]), value[d])
         IN /\ (op'.name = "invalidate" /\ ~dirty["S"])
                 => CallsToIn(log', e) = <<InvEv(d, e)>>
            /\ (op.name = "invalidate" /\ ~op.pre.dirty /\ op'.name = "set")
                 => CallsToIn(log', e) = <<run>>
            /\ (op'.name = "set" /\ ~dirty["S"]
                  /\ NotifyWarranted(value["S"], op'.arg, skipSubscribersWhenEqual("S")))
                 => CallsToIn(log', e) = <<InvEv(d, e), run>>]_vars

C20_Witness ==
  /\ op.name = "set" /\ op.pre.dirty /\ op.arg = Num(1)
  /\ subscribers["A"] = <<ExtEntry(1)>>
  /\ steps = 3
  /\ CallsTo(ExtEntry(1)) = <<ValEv("A", ExtEntry(1), Num(2), Num(1))>>

\* the runs of a cell's lifecycle hook and of its stop action, in a log
HookEventsIn(l, c) == SelectSeq(l, LAMBDA x : x.cell = c /\ x.t \in {"start", "stop"})

\* C14: whatever subscribe, listen and unsubscribe calls are made, also from
\* inside callbacks, the lifecycle hook of S runs exactly when the first
\* pair is about to be registered and its stop action exactly when the last
\* pair has been removed: hook and stop alternate, each runs with no
\* subscriber on the list, and the hook is on exactly while the list is not
\* empty. The derived cells are active exactly while they have subscribers.
C14_HookOncePerTransition ==
  [][/\ hookOn'["S"] = (subscribers'["S"] # <<>>)
     /\ \A j \in 1..Len(HookEventsIn(log', "S")) :
          /\ HookEventsIn(log', "S")[j].a = Num(0)
          /\ HookEventsIn(log', "S")[j].t =
               IF (j % 2 = 1) = ~hookOn["S"] THEN "start" ELSE "stop"
     /\ \A d \in Deriveds : hasAnySubscribers'[d] = (subscribers'[d] # <<>>)]_vars

C14_Witness ==
  /\ react = "unsubSelfInRun"
  /\ op.name = "set" /\ op.cell = "S" /\ op.pre.nsubs = 1
  /\ subscribers["S"] = <<>>
  /\ ~hookOn["S"]
  /\ Len(log) = 3
  /\ log[2] = ValEv("S", Reactor, op.arg, op.pre.value)
  /\ log[3].t = "stop"

\* the calls of one kind made to one pair by one cell during the last call
CallsOfKind(t, c, e) == SelectSeq(log, LAMBDA x : x.t = t /\ x.cell = c /\ x.who = e)

\* the last call was a wave on its cell: a set that notifies, or an
\* invalidate of a clean cell
IsSetWave ==
  /\ op.name = "set"
  /\ op.pre.dirty \/ NotifyWarranted(op.pre.value, op.arg, skipSubscribersWhenEqual(op.cell))
IsInvalidationWave == op.name \in {"set", "invalidate"} /\ ~op.pre.dirty /\ (op.name = "set" => IsSetWave)

\* C16: when a callback removes its own pair or an earlier one during a
\* wave, every pair of the cell that is still registered when the wave ends
\* has had its invalidation callback once (if the wave invalidates) and its
\* value callback once (if the wave sets).
C16_RemovalKeepsWave ==
  (op.name \in {"set", "invalidate"}
     /\ react \in {"unsubSelfInRun", "unsubSelfInInv", "unsubOtherInRun"})
    => \A j \in 1..Len(subscribers[op.cell]) :
         LET e == subscribers[op.cell][j]
         IN /\ IsInvalidationWave => Len(CallsOfKind("inv", op.cell, e)) = 1
            /\ IsSetWave => Len(CallsOfKind("val", op.cell, e)) = 1

\* C17: when a value callback subscribes a new pair during a set wave, the
\* new pair gets its immediate initial call and no further call in that
\* wave, and every pair registered before gets exactly one value callback.
C17_AdditionKeepsWave ==
  (react = "subscribeInRun" /\ IsSetWave)
    => /\ (\E j \in 1..Len(seen) : seen[j].who = Late /\ seen[j].by = "subscribe")
            => Len(CallsOfKind("val", op.cell, Late)) = 1
       /\ \A j \in 1..Len(subscribers[op.cell]) :
            subscribers[op.cell][j] # Late
              => Len(CallsOfKind("val", op.cell, subscribers[op.cell][j])) = 1

\* C18: get(store) on a store without get() whose subscribe does not call
\* back synchronously throws a TypeError, and by then the subscription it
\* made is cancelled: the list of the underlying cell is as before, and a
\* hook the subscription started has been stopped. On a foreign store that
\* does call back it returns the value delivered.
C18_HelperThrowsWhenNotCalled ==
  /\ (op.name = "getStore" /\ op.cell = "L")
       => /\ ret = TypeError
          /\ IndexOf(subscribers["S"], GetEntry) = 0
          /\ Len(subscribers["S"]) = op.pre.nsubs
          /\ CallsTo(GetEntry) = <<>>
          /\ hookOn["S"] = (op.pre.nsubs > 0)
          /\ op.pre.nsubs = 0 => (Len(log) = 2 /\ log[1].t = "start" /\ log[2].t = "stop")
  /\ (op.name = "getStore" /\ op.cell = "F")
       => /\ ret = value["S"]
          /\ IndexOf(subscribers["S"], GetEntry) = 0

C18_Witness ==
  /\ op.name = "getStore" /\ op.cell = "L" /\ op.pre.nsubs = 0
  /\ ret = TypeError
  /\ subscribers["S"] = <<>>
  /\ Len(log) = 2 /\ log[2].t = "stop"

\* the invocations of d's update function in a log, and what the sources
\* held at each of them
UpdatesIn(l, d) == SelectSeq(l, LAMBDA e : e.t = "update" /\ e.cell = d)
FedTo(f, d) == SelectSeq(f, LAMBDA x : x.cell = d)

\* C21: every invocation of an active derived cell's update function gets
\* the sources' current values, the cell's last committed value as previous
\* value, and as previous source values the source values of the previous
\* invocation (for the first one after activation: the current ones).
C21_UpdateArguments ==
  [][op'.name \notin {"get", "getStore"}
       => \A d \in Deriveds :
            LET U == UpdatesIn(log', d)
                F == FedTo(fed', d)
            IN /\ Len(F) = Len(U)
               /\ \A k \in 1..Len(U) :
                    /\ U[k].deps = F[k].cur
                    /\ U[k].b = IF k = 1 THEN value[d]
                                ELSE Fn(d, U[k - 1].deps, U[k - 1].b, U[k - 1].pdeps)
                    /\ U[k].pdeps = IF k > 1 THEN U[k - 1].deps
                                    ELSE IF hasAnySubscribers[d] THEN depPrevValues[d]
                                    ELSE U[k].deps]_vars

\* the invocations of d's update function and the runs of the stop actions
\* they returned, in a log
StopEventsIn(l, d) == SelectSeq(l, LAMBDA e : e.cell = d /\ e.t \in {"update", "stopper"})

\* C22: the stop action an invocation of the update function returned is
\* run, once, before the next invocation; when the last subscriber leaves
\* first it is run at teardown; the one an idle get() obtained is run
\* before get() returns. So within a call invocations and stop actions of
\* a cell alternate, starting with the stop action when one is
\* outstanding, and a cell without subscribers has none outstanding.
C22_StopActionRuns ==
  [][\A d \in Deriveds :
       ReturnsStopper(d) =>
         LET E == StopEventsIn(log', d)
         IN /\ \A k \in 1..Len(E) :
                 IF k = 1 THEN (E[k].t = "stopper") = stopPreviousUpdate[d]
                 ELSE E[k].t # E[k - 1].t
            /\ stopPreviousUpdate'[d] = IF Len(E) = 0 THEN stopPreviousUpdate[d]
                                        ELSE E[Len(E)].t = "update"
            /\ ~hasAnySubscribers'[d] => ~stopPreviousUpdate'[d]
            /\ (op'.name = "unsubscribe" /\ hasAnySubscribers[d] /\ ~hasAnySubscribers'[d])
                 => Len(E) = 1
            /\ (op'.name = "get" /\ op'.cell = d /\ ~hasAnySubscribers[d])
                 => E = <<Ev("update", d, NoEntry, Undefined, value[d], depValues'[d], depValues'[d]),
                          Ev("stopper", d, NoEntry, Undefined, Undefined, <<>>, <<>>)>>]_vars

\* a set on S made subscribed A run its outstanding stop action and then
\* its update function
C22_Witness ==
  /\ form = "stopper" /\ op.name = "set" /\ op.cell = "S"
  /\ hasAnySubscribers["A"] /\ stopPreviousUpdate["A"]
  /\ Len(StopEventsIn(log, "A")) = 2
  /\ StopEventsIn(log, "A")[1].t = "stopper" /\ StopEventsIn(log, "A")[2].t = "update"

\* the positions in the log of the last call at which the value callback
\* of entry e of cell c was called
ValueCallsAt(c, e) == {k \in 1..Len(log) : log[k].t = "val" /\ log[k].cell = c /\ log[k].who = e}

\* C23: a set(v) that notifies (the cell was dirty, or the equality policy
\* lets v through) calls the value callback of every registered subscriber
\* exactly once, with (v, the value held just before), and no other value
\* callback of the cell; afterwards the cell holds v, get() returns v, and
\* the call itself returned v.
C23_NotifyingSet ==
  (op.name = "set"
     /\ (op.pre.dirty \/ shouldUpdate(op.pre.value, op.arg, skipSubscribersWhenEqual(op.cell))))
    => /\ \A j \in 1..Len(subscribers[op.cell]) :
            /\ Cardinality(ValueCallsAt(op.cell, subscribers[op.cell][j])) = 1
            /\ \A k \in ValueCallsAt(op.cell, subscribers[op.cell][j]) :
                 log[k].a = op.arg /\ log[k].b = op.pre.value
       /\ Len(ValueCallsOf(op.cell)) = Len(subscribers[op.cell])
       /\ value[op.cell] = op.arg
       /\ get(World, op.cell).ret = op.arg
       /\ ret = op.arg

\* S held 0 with a caller's pair and the internal subscribers of A and B
\* registered, and set(1) called each of the three with (1, 0)
C23_Witness ==
  /\ op.name = "set" /\ op.cell = "S" /\ ~op.pre.dirty
  /\ op.pre.value = Num(0) /\ op.arg = Num(1)
  /\ Len(subscribers["S"]) = 3
  /\ \E j \in 1..3 : subscribers["S"][j].k = "ext"
  /\ Len(ValueCallsOf("S")) = 3

\* the entries of the internal subscribers of d
DepEntries(d) == {DepEntry(d, i) : i \in 1..Len(Deps(d))}

\* C24: while a derived cell has no subscribers (its last one has
\* unsubscribed, or it never had one) a set or an invalidation on a source
\* reaches nothing of it: its update function is not invoked, its internal
\* subscribers are on no source's list and are not called, and no callback
\* of the cell, so none of a former subscriber, is called.
C24_IdleCellIsDetached ==
  op.name \in {"set", "invalidate"}
    => \A d \in Deriveds :
         ~hasAnySubscribers[d]
           => /\ UpdatesOf(d) = <<>>
              /\ CallbacksOf(d) = <<>>
              /\ \A k \in 1..Len(log) : log[k].who \notin DepEntries(d)
              /\ \A c \in Cells : \A j \in 1..Len(subscribers[c]) :
                   subscribers[c][j] \notin DepEntries(d)
              /\ \A h \in Handles : handle[h] = d => CallsTo(ExtEntry(h)) = <<>>

\* handle 1 was a subscription of C and has been cancelled; C, A and B are
\* idle again, and a set that changed S called no one
C24_Witness ==
  /\ op.name = "set" /\ op.cell = "S" /\ op.arg # op.pre.value
  /\ handle[1] = "C" /\ Free(1)
  /\ \A d \in Deriveds : ~hasAnySubscribers[d]
  /\ value["S"] = op.arg
  /\ log = <<>>

\* how many times entry e is on the list of cell c
TimesOn(c, e) == Cardinality({j \in 1..Len(subscribers[c]) : subscribers[c][j] = e})

\* C25: at every moment between calls a derived cell with at least one
\* subscriber has exactly one internal subscriber on each of its sources,
\* and a cell with no subscriber has none; no other list ever holds one.
\* Activation/teardown cycles leave nothing behind.
C25_OneSubscriptionPerSource ==
  \A d \in Deriveds : \A i \in 1..Len(Deps(d)) :
    /\ TimesOn(Under(Deps(d)[i]), DepEntry(d, i)) = IF Len(subscribers[d]) > 0 THEN 1 ELSE 0
    /\ \A c \in Cells \ {Under(Deps(d)[i])} : TimesOn(c, DepEntry(d, i)) = 0
    /\ depUnsubscribers[d][i] = (Len(subscribers[d]) > 0)
    /\ hasAnySubscribers[d] = (Len(subscribers[d]) > 0)

\* C had two subscribers (its slots were filled once) and both have
\* unsubscribed: C, A and B are torn down and every list is empty
C25_Witness ==
  /\ op.name = "unsubscribe" /\ op.cell = "C" /\ op.pre.nsubs = 1 /\ ret = TRUE
  /\ handle[1] = "C" /\ handle[2] = "C" /\ Free(1) /\ Free(2)
  /\ \A i \in 1..Len(Deps("C")) : ~depDirty["C"][i]
  /\ \A c \in Cells : subscribers[c] = <<>>

\* the positions in a log at which an internal subscriber of d was told
\* that its source is invalid, and at which entry e of cell c was called
SourceInvalidatedAt(l, d) ==
  {k \in 1..Len(l) : l[k].t = "inv" /\ l[k].who \in DepEntries(d)}
CalledAt(l, t, c, e) ==
  {k \in 1..Len(l) : l[k].t = t /\ l[k].cell = c /\ l[k].who = e}

\* C26: when a set or an invalidation on S invalidates a source of an
\* active derived cell d, then d marks the slot and is dirty (seen in the
\* state an invalidate() leaves, and by every invalidation callback d
\* makes); each subscriber of d, a caller's pair or the internal
\* subscriber of a cell further up, gets its invalidation callback (unless
\* d was dirty before the call and it has had it), and every invalidation
\* callback d makes to it in that call comes before every value callback
\* d makes to it in that call.
C26_InvalidationCascades ==
  [][op'.name \in {"set", "invalidate"}
       => \A d \in Deriveds :
            SourceInvalidatedAt(log', d) # {}
              => /\ hasAnySubscribers[d]
                 /\ op'.name = "invalidate"
                      => /\ dirty'[d]
                         /\ \A k \in SourceInvalidatedAt(log', d) : depDirty'[d][log'[k].who.i]
                 /\ \A j \in 1..Len(seen') :
                      (seen'[j].t = "inv" /\ seen'[j].cell = d) => seen'[j].isDirty
                 /\ \A j \in 1..Len(subscribers[d]) :
                      LET e == subscribers[d][j]
                          I == CalledAt(log', "inv", d, e)
                          V == CalledAt(log', "val", d, e)
                      IN /\ ~dirty[d] => I # {}
                         /\ \A m \in I : \A n \in V : m < n]_vars

\* the positions in a log at which a source delivered a value to d
DeliveredAt(l, d) == {k \in 1..Len(l) : l[k].t = "val" /\ l[k].who \in DepEntries(d)}

\* C27: for a derived cell that is active before and after a call (it
\* waits for all slots to be clean), the recorded previous source values
\* change only by an invocation of the update function: a call without one
\* leaves them as they were; the first invocation of a call still gets the
\* values recorded before the call, whatever was delivered to other slots
\* meanwhile; each later one gets the source values of the invocation
\* before it; and the call leaves the source values of the last invocation,
\* which are the buffered ones.
C27_PreviousValuesFrame ==
  [][\A d \in Deriveds :
       (hasAnySubscribers[d] /\ hasAnySubscribers'[d])
         => LET U == UpdatesIn(log', d)
            IN /\ Len(U) = 0 => depPrevValues'[d] = depPrevValues[d]
               /\ Len(U) > 0 => /\ depPrevValues'[d] = U[Len(U)].deps
                                /\ depPrevValues'[d] = depValues'[d]
               /\ \A k \in 1..Len(U) :
                    U[k].pdeps = IF k = 1 THEN depPrevValues[d] ELSE U[k - 1].deps]_vars

\* a set on S delivered A's new value to C while B's slot was dirty, which
\* dispatched nothing; B's delivery then invoked C's update function with
\* the new source values and the old ones as previous
C27_Witness ==
  /\ op.name = "set" /\ op.cell = "S" /\ hasAnySubscribers["C"]
  /\ Cardinality(DeliveredAt(log, "C")) = 2
  /\ Len(UpdatesOf("C")) = 1
  /\ UpdatesOf("C")[1].pdeps # UpdatesOf("C")[1].deps
  /\ UpdatesOf("C")[1].pdeps[1] # UpdatesOf("C")[1].deps[1]
  /\ depPrevValues["C"] = UpdatesOf("C")[1].deps

\* C28: when a set on S starts a wave in which the update function of an
\* active derived cell is invoked and does not call its setter before it
\* returns, the cell keeps its committed value and is dirty when the call
\* ends, and its subscribers get no value callback in that call; and a
\* dirty cell whose setter call is owed stays dirty, while it is active,
\* through every call except the one that makes the setter call.
C28_DeferredSetterLeavesDirty ==
  [][\A d \in Deriveds :
       (Form(d) = "deferred" /\ hasAnySubscribers[d] /\ hasAnySubscribers'[d])
         => /\ (op'.name \in {"set", "update"} /\ UpdatesIn(log', d) # <<>>)
                 => /\ value'[d] = value[d]
                    /\ dirty'[d]
                    /\ CalledAt(log', "val", d, ExtEntry(1)) = {}
                    /\ \A k \in 1..Len(log') : ~(log'[k].t = "val" /\ log'[k].cell = d)
                    /\ pending'[d].on
            /\ (dirty[d] /\ op'.name # "resolve") => dirty'[d]]_vars

\* C29: S.update(fn) does what S.set(fn(S.get())) does from the same
\* state: the same value and dirty flag of every cell, the same return
\* value, the same sequence of callbacks, update invocations and stop
\* actions, and the same bookkeeping of the derived cells.
C29_UpdateIsSetOfFn ==
  [][op'.name = "update"
       => LET c == op'.cell
              w == set(get(World, c), c, Apply(op'.fn, get(World, c).ret))
          IN /\ value' = w.value
             /\ dirty' = w.dirty
             /\ ret' = w.ret
             /\ log' = w.log
             /\ seen' = w.seen
             /\ subscribers' = w.subscribers
             /\ depValues' = w.depValues
             /\ depPrevValues' = w.depPrevValues
             /\ depDirty' = w.depDirty
             /\ pending' = w.pending]_vars

\* S.update(x => (x + 1) % 3) on a clean S with A subscribed by a caller:
\* S holds and returned the incremented value, and the wave reached the
\* caller of A
C29_Witness ==
  /\ op.name = "update" /\ op.cell = "S" /\ op.fn = "inc" /\ ~op.pre.dirty
  /\ IsNum(op.pre.value)
  /\ value["S"] = UpdateA(op.pre.value) /\ ret = value["S"]
  /\ form = "stopper"
  /\ \E h \in Handles : CalledAt(log, "val", "A", ExtEntry(h)) # {}

\* the handles whose entry is on the list of cell c; the caller registers
\* the same recording callbacks under every handle
HandlesOn(c) == {h \in Handles : IndexOf(subscribers[c], ExtEntry(h)) > 0}

\* C30: registering the caller's callbacks on a cell that already has them
\* adds another entry at the end of the list; while several are
\* registered, every call on the network calls them equally often, once
\* each in a notifying set on the cell; and calling the unsubscribe handle
\* of one of them removes that handle's entry alone and returns true, the
\* others keep their places, and the cell stays active: no stop action
\* runs.
C30_EntryIdentity ==
  [][/\ (op'.name \in {"subscribe", "listen"} /\ HandlesOn(op'.cell) # {})
         => /\ subscribers'[op'.cell] = Append(subscribers[op'.cell], ExtEntry(op'.h))
            /\ op'.h \notin HandlesOn(op'.cell)
     /\ op'.name \in {"set", "invalidate", "get"}
         => \A c \in Cells : \A g \in HandlesOn(c) : \A h \in HandlesOn(c) :
              /\ \A t \in {"inv", "val"} :
                   Cardinality(CalledAt(log', t, c, ExtEntry(g)))
                     = Cardinality(CalledAt(log', t, c, ExtEntry(h)))
              /\ (op'.name = "set" /\ op'.cell = c
                    /\ (dirty[c] \/ shouldUpdate(value[c], op'.arg, skipSubscribersWhenEqual(c))))
                   => Cardinality(CalledAt(log', "val", c, ExtEntry(g))) = 1
     /\ (op'.name = "unsubscribe" /\ HandlesOn(op'.cell) \ {op'.h} # {}
           /\ op'.h \in HandlesOn(op'.cell))
         => LET c == op'.cell
                h == op'.h
            IN /\ ret' = TRUE
               /\ subscribers'[c] = Splice(subscribers[c], IndexOf(subscribers[c], ExtEntry(h)))
               /\ IndexOf(subscribers'[c], ExtEntry(h)) = 0
               /\ \A g \in HandlesOn(c) \ {h} : IndexOf(subscribers'[c], ExtEntry(g)) > 0
               /\ log' = <<>>
               /\ stop'[c]
               /\ c \in Writables => hookOn'[c]
               /\ c \in Deriveds => hasAnySubscribers'[c]]_vars

\* S had the caller's callbacks twice and nothing else; the first handle
\* was called, and the second entry is still there with S's hook on
C30_Witness ==
  /\ op.name = "unsubscribe" /\ op.cell = "S" /\ op.h = 1 /\ op.pre.nsubs = 2
  /\ ret = TRUE
  /\ subscribers["S"] = <<ExtEntry(2)>>
  /\ hookOn["S"] /\ log = <<>>

\* C31: a derived cell built with skipDirtyDeps = false invokes its update
\* function on every value a source delivers to it, at once, with the
\* values buffered at that moment, also while another slot is dirty.
C31_EagerUpdates ==
  [][\A d \in Deriveds :
       ~skipDirtyDeps(d)
         => /\ op'.name # "get"
                 => Len(UpdatesIn(log', d)) = Cardinality(DeliveredAt(log', d))
            /\ \A k \in DeliveredAt(log', d) :
                 /\ k < Len(log')
                 /\ log'[k + 1].t = "update" /\ log'[k + 1].cell = d
                 /\ log'[k + 1].deps[log'[k].who.i] = log'[k].a]_vars

\* a set on S with C subscribed: A's delivery invoked C's update function
\* with the new A and the old B, B's slot being dirty, and B's delivery
\* invoked it again
C31_Witness ==
  /\ ~optSkipDirtyDeps
  /\ op.name = "set" /\ op.cell = "S" /\ ~op.pre.dirty /\ hasAnySubscribers["C"]
  /\ Len(UpdatesOf("C")) = 2
  /\ UpdatesOf("C")[1].deps[1] = UpdatesOf("C")[2].deps[1]
  /\ UpdatesOf("C")[1].deps[2] # UpdatesOf("C")[2].deps[2]
  /\ UpdatesOf("C")[1].deps[2] = UpdatesOf("C")[1].pdeps[2]

\* C32: get(store) returns the store's current value: for a cell, what
\* its own get() returns; for the foreign store whose subscribe returns the
\* bare unsubscribe function and for the one whose subscribe returns an
\* object with an unsubscribe method, the value of the cell behind it, and
\* that cell has the same subscribers after the call as before.
C32_ReadHelper ==
  /\ (op.name = "getStore" /\ op.cell \in Cells)
       => ret = get(World, op.cell).ret
  /\ (op.name = "getStore" /\ op.cell \in {"P", "F"})
       => /\ ret = value[Under(op.cell)]
          /\ Len(subscribers[Under(op.cell)]) = op.pre.nsubs
          /\ TimesOn(Under(op.cell), GetEntry) = 0
          /\ CallsTo(GetEntry) = <<ValEv(Under(op.cell), GetEntry, ret, ret)>>

\* get(F), F's subscribe returning an object, read the value an earlier
\* set gave S, and S has the subscriber it had
C32_Witness ==
  /\ op.name = "getStore" /\ op.cell = "F" /\ UnsubscriberOf(op.cell) = "object"
  /\ op.pre.nsubs = 1 /\ Len(subscribers["S"]) = 1
  /\ value["S"] # Num(0) /\ ret = value["S"]

\* the sources' current values as get() on an idle d reads them
SourcesNow(d) == [i \in 1..Len(Deps(d)) |-> Fresh(Deps(d)[i])]

\* C33: get() on a derived cell without subscribers invokes the cell's
\* update function exactly once, with the sources' current values as the
\* source values and as the previous source values and the configured
\* initial value (undefined if none) as the previous value; what the
\* update function sets is what get() returns and nothing else: the cell
\* keeps its value and makes no callback.
C33_IdleGetArguments ==
  (op.name = "get" /\ op.cell \in Deriveds /\ ~hasAnySubscribers[op.cell])
    => LET d == op.cell
       IN /\ UpdatesOf(d) = <<Ev("update", d, NoEntry, Undefined, initial(d),
                                 SourcesNow(d), SourcesNow(d))>>
          /\ ret = Fn(d, SourcesNow(d), initial(d), SourcesNow(d))
          /\ value[d] = initial(d) /\ op.pre.value = initial(d)
          /\ ~dirty[d]
          /\ CallbacksOf(d) = <<>>

\* C, built with initial value 1, is read while idle after S was set to 1:
\* its update function got [2, 2] twice and 1
C33_Witness ==
  /\ op.name = "get" /\ op.cell = "C" /\ ~hasAnySubscribers["C"]
  /\ initialC = Num(1) /\ value["S"] = Num(1)
  /\ Len(UpdatesOf("C")) = 1
  /\ UpdatesOf("C")[1].deps = <<Num(2), Num(2)>>
  /\ UpdatesOf("C")[1].pdeps = <<Num(2), Num(2)>>
  /\ UpdatesOf("C")[1].b = Num(1)
  /\ ret = UpdateC(Num(2), Num(2), Num(1))

\* C34: with update functions that call their setter during the call and
\* callbacks that only record, every completed call leaves each active
\* derived cell holding the result of an invocation of its update function
\* on the values its sources hold now: the last invocation of the call had
\* exactly these source values and the cell holds its result, and a call
\* without an invocation changed neither the cell nor its sources. After a
\* completed set no cell is dirty and no slot is marked.
C34_SettledAfterSet ==
  [][/\ \A d \in Deriveds :
          hasAnySubscribers'[d]
            => LET U == UpdatesIn(log', d)
               IN IF Len(U) > 0
                  THEN /\ U[Len(U)].deps = [i \in 1..Len(Deps(d)) |-> value'[Under(Deps(d)[i])]]
                       /\ value'[d] = Fn(d, U[Len(U)].deps, U[Len(U)].b, U[Len(U)].pdeps)
                       /\ depValues'[d] = U[Len(U)].deps
                  ELSE /\ hasAnySubscribers[d]
                       /\ value'[d] = value[d]
                       /\ \A i \in 1..Len(Deps(d)) :
                            value'[Under(Deps(d)[i])] = value[Under(Deps(d)[i])]
     /\ op'.name = "set"
          => /\ \A c \in Cells : ~dirty'[c]
             /\ \A d \in Deriveds :
                  hasAnySubscribers'[d] => \A i \in 1..Len(Deps(d)) : ~depDirty'[d][i]]_vars

\* S was invalidated with C subscribed, which left S, A, B and C dirty; a
\* set with a new value recomputed A, B and C, and nothing is dirty
C34_Witness ==
  /\ op.name = "set" /\ op.cell = "S" /\ op.pre.dirty /\ op.arg # op.pre.value
  /\ hasAnySubscribers["C"]
  /\ Len(UpdatesOf("A")) = 1 /\ Len(UpdatesOf("B")) = 1 /\ Len(UpdatesOf("C")) = 1
  /\ value["C"] = Fn("C", <<value["A"], value["B"]>>, UpdatesOf("C")[1].b, UpdatesOf("C")[1].pdeps)
  /\ \A c \in Cells : ~dirty[c]

\* C35: in the diamond, a subscriber of C receives in every S.set that
\* changes S's value exactly one value call, with C's new value, and
\* before it the one invalidation call (none only if C was dirty already,
\* the invalidation having been delivered by an earlier call).
C35_DiamondSubscriberCalls ==
  [][(op'.name = "set" /\ op'.cell = "S" /\ ~StrictEq(value["S"], op'.arg))
       => \A h \in HandlesOn("C") :
            CallsToIn(log', ExtEntry(h))
              = (IF dirty["C"] THEN <<>> ELSE <<InvEv("C", ExtEntry(h))>>)
                  \o <<ValEv("C", ExtEntry(h), value'["C"], value["C"])>>]_vars

\* C36: no stop action is run twice: among the stop actions of a cell run
\* during a call, the one stored before the call and the one each
\* invocation of the update function returned appear at most once.
C36_StopActionOnce ==
  \A j \in 1..Len(stops) : \A k \in 1..Len(stops) : stops[j] = stops[k] => j = k

\* C37: when, during a notifying set on S, the only subscriber of a
\* derived cell D1 over S unsubscribes from inside its value callback (D1
\* is torn down in the middle of the wave), every other derived cell D2
\* over S that is active still gets S's new value in that call, invokes
\* its update function with it, and is not dirty when the call ends.
C37_TeardownInWaveSparesOthers ==
  (op.name = "set" /\ op.cell = "S" /\ react = "unsubSelfInRun")
    => \A D1 \in SingleOverS : \A D2 \in SingleOverS \ {D1} :
         (/\ handle[1] = D1 /\ ~hasAnySubscribers[D1]
          /\ CalledAt(log, "val", D1, Reactor) # {}
          /\ hasAnySubscribers[D2])
           => /\ CalledAt(log, "val", "S", DepEntry(D2, 1)) # {}
              /\ Len(UpdatesOf(D2)) = 1
              /\ UpdatesOf(D2)[1].deps = <<value["S"]>>
              /\ ~dirty[D2]
              /\ value[D2] = Fn(D2, <<value["S"]>>, Undefined, <<>>)

\* C38: a derived cell without subscribers is never dirty; when the last
\* subscriber of a dirty cell unsubscribes (its source was invalidated and
\* has not delivered), the teardown leaves isDirty() false and the
\* configured initial value in the cell, and told no one.
C38_TornDownIsClean ==
  \A d \in Deriveds :
    /\ ~hasAnySubscribers[d] => ~dirty[d]
    /\ (TornDown(d) /\ op.pre.dirty)
         => /\ ~dirty[d]
            /\ value[d] = initial(d)
            /\ CallbacksOf(d) = <<>>

\* C, built with initial value 1, was dirty after S.invalidate() and held
\* another value when its only subscriber unsubscribed
C38_Witness ==
  /\ TornDown("C") /\ op.pre.dirty /\ dirty["S"]
  /\ initialC = Num(1) /\ op.pre.value # Num(1)
  /\ ~dirty["C"] /\ ~dirty["A"] /\ ~dirty["B"]
  /\ value["C"] = Num(1)

\* C39: every value callback a cell makes, in a set, in a set made from
\* inside a value callback of an outer set on the same cell, in the rest of
\* the outer set's loop, or at subscription, gets as its first argument
\* the value the cell's get() returns at that moment.
C39_ValueArgumentIsCurrent ==
  /\ Len(seen) = Len(AllCallbacks)
  /\ \A j \in 1..Len(seen) :
       /\ seen[j].cell = AllCallbacks[j].cell /\ seen[j].t = AllCallbacks[j].t
       /\ seen[j].t = "val" => (seen[j].active /\ AllCallbacks[j].a = seen[j].raw)

\* S held 0 with the setting callback and another one subscribed, in this
\* order; S.set(object) called the first, which set S to 1: the second got
\* (1, object) from the inner set and then (1, 0) from the outer loop
C39_Witness ==
  /\ react = "setInRun"
  /\ op.name = "set" /\ op.cell = "S" /\ op.arg = Obj(1) /\ op.pre.value = Num(0)
  /\ value["S"] = Num(1)
  /\ SelectSeq(CallsTo(Other), LAMBDA x : x.t = "val")
       = <<ValEv("S", Other, Num(1), Obj(1)), ValEv("S", Other, Num(1), Num(0))>>
====
